---- MODULE Spec2Model ----
(***************************************************************************)
(* envcheck: the .env parser, comparator, validator and checker of         *)
(* src/src/index.js.                                                       *)
(*                                                                         *)
(* A JavaScript string is a sequence of one-character strings, so that     *)
(* trimming, splitting and quoting are computed and not assumed.  A plain  *)
(* JavaScript object is a sequence of <<key, value>> pairs in property     *)
(* order, with Object.prototype behind it.                                 *)
(***************************************************************************)
EXTENDS Integers, Sequences, FiniteSets, TLC

(***************************************************************************)
(* Strings                                                                 *)
(***************************************************************************)
Letters == {"A","B","C","D","E","F","G","H","I","J","K","L","M","N","O","P","Q","R","S","T","U","V","W","X","Y","Z",
            "a","b","c","d","e","f","g","h","i","j","k","l","m","n","o","p","q","r","s","t","u","v","w","x","y","z"}

Digits == {"0","1","2","3","4","5","6","7","8","9"}

UpperSeq == <<"A","B","C","D","E","F","G","H","I","J","K","L","M","N","O","P","Q","R","S","T","U","V","W","X","Y","Z">>

LowerSeq == <<"a","b","c","d","e","f","g","h","i","j","k","l","m","n","o","p","q","r","s","t","u","v","w","x","y","z">>

DigitSeq == <<"0","1","2","3","4","5","6","7","8","9">>

\* String.prototype.toLowerCase, one character
toLowerChar(c) ==
    IF \E i \in 1..Len(UpperSeq) : UpperSeq[i] = c
    THEN LowerSeq[CHOOSE i \in 1..Len(UpperSeq) : UpperSeq[i] = c]
    ELSE c

toLowerCase(s) == [i \in 1..Len(s) |-> toLowerChar(s[i])]

\* the characters String.prototype.trim removes and \s matches
IsSpace(c) == c \in {" ", "\t", "\r", "\n"}

\* the characters \w matches
WordChars == Letters \cup Digits \cup {"_"}

IsWordChar(c) == c \in WordChars

RECURSIVE trimStart(_)
trimStart(s) == IF s # <<>> /\ IsSpace(Head(s)) THEN trimStart(Tail(s)) ELSE s

RECURSIVE trimEnd(_)
trimEnd(s) == IF s # <<>> /\ IsSpace(s[Len(s)]) THEN trimEnd(SubSeq(s, 1, Len(s) - 1)) ELSE s

trim(s) == trimEnd(trimStart(s))

startsWith(s, p) == Len(s) >= Len(p) /\ SubSeq(s, 1, Len(p)) = p

endsWith(s, p) == Len(s) >= Len(p) /\ SubSeq(s, Len(s) - Len(p) + 1, Len(s)) = p

\* whether p occurs in s at the 1-based position i
occursAt(s, p, i) == \A j \in 1..Len(p) : s[i + j - 1] = p[j]

RECURSIVE indexFrom(_, _, _)
indexFrom(s, p, i) ==
    IF i + Len(p) - 1 > Len(s) THEN -1
    ELSE IF occursAt(s, p, i) THEN i - 1
    ELSE indexFrom(s, p, i + 1)

\* String.prototype.indexOf: 0-based index of the first occurrence, -1 if none
indexOf(s, p) == indexFrom(s, p, 1)

\* String.prototype.slice(from, to) for 0 <= from, 0 <= to
slice(s, from, to) == SubSeq(s, from + 1, to)

\* String.prototype.slice(from) for 0 <= from
sliceFrom(s, from) == SubSeq(s, from + 1, Len(s))

\* String.prototype.replace(/pat/g, rep): left to right, non-overlapping
RECURSIVE replaceAll(_, _, _)
replaceAll(s, pat, rep) ==
    IF s = <<>> THEN <<>>
    ELSE IF startsWith(s, pat) THEN rep \o replaceAll(sliceFrom(s, Len(pat)), pat, rep)
    ELSE <<Head(s)>> \o replaceAll(Tail(s), pat, rep)

\* String.prototype.split('\n'): always at least one piece
RECURSIVE split(_)
split(content) ==
    LET nl == indexOf(content, <<"\n">>)
    IN  IF nl = -1 THEN <<content>>
        ELSE <<slice(content, 0, nl)>> \o split(sliceFrom(content, nl + 1))

\* Array.prototype.join('\n')
RECURSIVE join(_)
join(lines) ==
    IF lines = <<>> THEN <<>>
    ELSE IF Len(lines) = 1 THEN lines[1]
    ELSE lines[1] \o <<"\n">> \o join(Tail(lines))

(***************************************************************************)
(* Plain objects                                                           *)
(***************************************************************************)
ProtoKey == <<"_","_","p","r","o","t","o","_","_">>

\* the property names every plain object inherits from Object.prototype
ObjectPrototypeKeys ==
    { <<"c","o","n","s","t","r","u","c","t","o","r">>,
      <<"t","o","S","t","r","i","n","g">>,
      <<"t","o","L","o","c","a","l","e","S","t","r","i","n","g">>,
      <<"v","a","l","u","e","O","f">>,
      <<"h","a","s","O","w","n","P","r","o","p","e","r","t","y">>,
      <<"i","s","P","r","o","t","o","t","y","p","e","O","f">>,
      <<"p","r","o","p","e","r","t","y","I","s","E","n","u","m","e","r","a","b","l","e">>,
      <<"_","_","d","e","f","i","n","e","G","e","t","t","e","r","_","_">>,
      <<"_","_","d","e","f","i","n","e","S","e","t","t","e","r","_","_">>,
      <<"_","_","l","o","o","k","u","p","G","e","t","t","e","r","_","_">>,
      <<"_","_","l","o","o","k","u","p","S","e","t","t","e","r","_","_">>,
      ProtoKey }

\* what reading an inherited property gives: a function or object, never a string
Inherited == <<"[inherited]">>

\* what reading a property that is nowhere gives
Undefined == <<"[undefined]">>

EmptyObject == <<>>

\* Object.keys
ObjectKeys(o) == [i \in 1..Len(o) |-> o[i][1]]

HasOwn(o, k) == \E i \in 1..Len(o) : o[i][1] = k

\* the `in` operator: own properties and the prototype chain
In(o, k) == HasOwn(o, k) \/ k \in ObjectPrototypeKeys

\* o[k]
Get(o, k) ==
    IF HasOwn(o, k) THEN o[CHOOSE i \in 1..Len(o) : o[i][1] = k][2]
    ELSE IF k \in ObjectPrototypeKeys THEN Inherited
    ELSE Undefined

RECURSIVE digitsValue(_)
digitsValue(s) ==
    IF s = <<>> THEN 0
    ELSE 10 * digitsValue(SubSeq(s, 1, Len(s) - 1))
         + (CHOOSE d \in 0..9 : DigitSeq[d + 1] = s[Len(s)])

\* a canonical array index: property order puts these first, ascending
IsArrayIndex(k) ==
    /\ k # <<>>
    /\ \A i \in 1..Len(k) : k[i] \in Digits
    /\ (Len(k) > 1 => k[1] # "0")
    /\ Len(k) <= 9

\* a new own data property, placed where OrdinaryOwnPropertyKeys lists it
Define(o, k, v) ==
    IF HasOwn(o, k)
    THEN [i \in 1..Len(o) |-> IF o[i][1] = k THEN <<k, v>> ELSE o[i]]
    ELSE IF IsArrayIndex(k)
    THEN LET before == {i \in 1..Len(o) : IsArrayIndex(o[i][1])
                                          /\ digitsValue(o[i][1]) < digitsValue(k)}
             n == Cardinality(before)
         IN  SubSeq(o, 1, n) \o <<<<k, v>>>> \o SubSeq(o, n + 1, Len(o))
    ELSE Append(o, <<k, v>>)

\* o[k] = v with v a string or a number: the __proto__ setter ignores it
Put(o, k, v) == IF k = ProtoKey THEN o ELSE Define(o, k, v)

\* { ...a, ...b }
RECURSIVE Spread(_, _)
Spread(a, b) == IF b = <<>> THEN a ELSE Spread(Define(a, b[1][1], b[1][2]), Tail(b))

(***************************************************************************)
(* Numbers and messages                                                    *)
(***************************************************************************)
\* String(n) for an integer n
RECURSIVE natToString(_)
natToString(n) ==
    IF n < 10 THEN <<DigitSeq[n + 1]>>
    ELSE natToString(n \div 10) \o <<DigitSeq[(n % 10) + 1]>>

numberToString(n) == IF n < 0 THEN <<"-">> \o natToString(0 - n) ELSE natToString(n)

\* a line number read off Object.prototype: a function, not a number
InheritedLine == 0

\* lineInfo[key]
GetLine(lineInfo, key) ==
    IF HasOwn(lineInfo, key) THEN <<Get(lineInfo, key)>>
    ELSE IF key \in ObjectPrototypeKeys THEN <<InheritedLine>>
    ELSE <<>>

\* `${lineInfo[key]}`
lineToString(l) ==
    IF l = <<>> THEN Undefined
    ELSE IF l = <<InheritedLine>> THEN Inherited
    ELSE numberToString(l[1])

\* a template literal: its text with % for each ${...}, and the substituted strings
Message(text, args) == [text |-> text, args |-> args]

(***************************************************************************)
(* parseValue, src/src/index.js 189-217                                    *)
(***************************************************************************)
DQ == <<"\"">>

SQ == <<"'">>

BS == "\\"

\* lines 208-212 with the pass of line 211 made first
unescape_BackslashFirst(value) ==
    replaceAll(
      replaceAll(
        replaceAll(
          replaceAll(
            replaceAll(value, <<BS, BS>>, <<BS>>),
            <<BS, "n">>, <<"\n">>),
          <<BS, "r">>, <<"\r">>),
        <<BS, "t">>, <<"\t">>),
      <<BS, "\"">>, DQ)

\* the five replace passes of lines 208-212
unescape(value) ==
    replaceAll(
      replaceAll(
        replaceAll(
          replaceAll(
            replaceAll(value, <<BS, "n">>, <<"\n">>),
            <<BS, "r">>, <<"\r">>),
          <<BS, "t">>, <<"\t">>),
        <<BS, BS>>, <<BS>>),
      <<BS, "\"">>, DQ)

\* lines 193-198 with the needle ' ' in place of ' #'
stripComment_AtSpace(raw) ==
    IF ~startsWith(raw, DQ) /\ ~startsWith(raw, SQ) /\ indexOf(raw, <<" ">>) # -1
    THEN slice(raw, 0, indexOf(raw, <<" ">>))
    ELSE raw

\* lines 193-198 without the test of line 193: cut inside quotes too
stripComment_InQuotes(raw) ==
    IF indexOf(raw, <<" ", "#">>) # -1
    THEN slice(raw, 0, indexOf(raw, <<" ", "#">>))
    ELSE raw

\* lines 193-198: an unquoted right-hand side ends before its first ' #'
stripComment(raw) ==
    IF ~startsWith(raw, DQ) /\ ~startsWith(raw, SQ) /\ indexOf(raw, <<" ", "#">>) # -1
    THEN slice(raw, 0, indexOf(raw, <<" ", "#">>))
    ELSE raw

parseValue(raw) ==
    LET value == trim(stripComment(raw))
    IN  IF (startsWith(value, DQ) /\ endsWith(value, DQ))
           \/ (startsWith(value, SQ) /\ endsWith(value, SQ))
        THEN LET inner == SubSeq(value, 2, Len(value) - 1)
             IN  IF startsWith(trim(raw), DQ) THEN unescape(inner) ELSE inner
        ELSE value

(***************************************************************************)
(* parseEnv, src/src/index.js 95-182                                       *)
(***************************************************************************)
Null == <<"[null]">>

RECURSIVE wordPrefix(_)
wordPrefix(s) ==
    IF s # <<>> /\ IsWordChar(Head(s)) THEN <<Head(s)>> \o wordPrefix(Tail(s)) ELSE <<>>

\* trimmed.match(/^#\s*(?:type:|@type)\s*(\w+)/i): the capture, or Null
typeMatch(trimmed) ==
    LET afterHash == trimStart(Tail(trimmed))
        keyword   == \/ startsWith(toLowerCase(afterHash), <<"t","y","p","e",":">>)
                     \/ startsWith(toLowerCase(afterHash), <<"@","t","y","p","e">>)
        word      == wordPrefix(trimStart(sliceFrom(afterHash, 5)))
    IN  IF keyword /\ word # <<>>
        THEN word
        ELSE Null

\* the characters [A-Za-z_] matches
NameStartChars == Letters \cup {"_"}

\* /^[A-Za-z_][A-Za-z0-9_]*$/.test(key)
IsUsualName(key) ==
    /\ key # <<>>
    /\ key[1] \in NameStartChars
    /\ \A i \in 1..Len(key) : IsWordChar(key[i])

NewParseResult == [variables |-> EmptyObject, errors |-> <<>>, warnings |-> <<>>,
                   lineInfo |-> EmptyObject, typeHints |-> EmptyObject]

\* line 172 left out: the line of an assignment is not recorded
storeLine_Dropped(lineInfo, key, lineNum) == lineInfo

\* line 172: result.lineInfo[key] = lineNum
storeLine(lineInfo, key, lineNum) == Put(lineInfo, key, lineNum)

\* one iteration of the loop of lines 107-179 on st = [result, pendingTypeHint]
parseLine(st, line, lineNum) ==
    LET result  == st.result
        trimmed == trim(line)
        eqIndex == indexOf(line, <<"=">>)
        key     == trim(slice(line, 0, eqIndex))
        value   == parseValue(sliceFrom(line, eqIndex + 1))
        unusual == IF ~IsUsualName(key)
                   THEN <<[line |-> lineNum,
                           message |-> Message("Variable name '%' contains unusual characters", <<key>>),
                           content |-> line]>>
                   ELSE <<>>
        duplicate == IF In(result.variables, key)
                     THEN <<[line |-> lineNum,
                             message |-> Message("Duplicate variable '%' (previous at line %)",
                                                 <<key, lineToString(GetLine(result.lineInfo, key))>>),
                             content |-> line]>>
                     ELSE <<>>
        hinted  == st.pendingTypeHint # Null /\ st.pendingTypeHint # <<>>
    IN  IF startsWith(trimmed, <<"#">>)
        THEN [st EXCEPT !.pendingTypeHint =
                 IF typeMatch(trimmed) # Null THEN toLowerCase(typeMatch(trimmed)) ELSE @]
        ELSE IF trimmed = <<>>
        THEN [st EXCEPT !.pendingTypeHint = Null]
        ELSE IF eqIndex = -1
        THEN [st EXCEPT !.result.errors =
                 Append(@, [line |-> lineNum,
                            message |-> Message("Invalid syntax: missing '=' sign", <<>>),
                            content |-> line])]
        ELSE IF key = <<>>
        THEN [st EXCEPT !.result.errors =
                 Append(@, [line |-> lineNum,
                            message |-> Message("Empty variable name", <<>>),
                            content |-> line])]
        ELSE [result |-> [variables |-> Put(result.variables, key, value),
                          errors    |-> result.errors,
                          warnings  |-> result.warnings \o unusual \o duplicate,
                          lineInfo  |-> storeLine(result.lineInfo, key, lineNum),
                          typeHints |-> IF hinted
                                        THEN Put(result.typeHints, key, st.pendingTypeHint)
                                        ELSE result.typeHints],
              pendingTypeHint |-> IF hinted THEN Null ELSE st.pendingTypeHint]

RECURSIVE parseLines(_, _, _)
parseLines(st, lines, i) ==
    IF i > Len(lines) THEN st.result
    ELSE parseLines(parseLine(st, lines[i], i), lines, i + 1)

parseEnv(content) ==
    parseLines([result |-> NewParseResult, pendingTypeHint |-> Null], split(content), 1)

(***************************************************************************)
(* typeValidators and validateType, src/src/index.js 9-88, 314-320         *)
(***************************************************************************)
\* what a call that throws gives instead of a result
Threw == [exception |-> "TypeError"]

RECURSIVE digitPrefix(_)
digitPrefix(s) ==
    IF s # <<>> /\ Head(s) \in Digits THEN <<Head(s)>> \o digitPrefix(Tail(s)) ELSE <<>>

\* parseInt(value, 10): <<n>>, or <<>> for NaN
parseInt(value) ==
    LET t      == IF value = Inherited THEN <<>> ELSE trimStart(value)
        signed == t # <<>> /\ t[1] \in {"+", "-"}
        ds     == digitPrefix(IF signed THEN Tail(t) ELSE t)
    IN  IF ds = <<>> THEN <<>>
        ELSE IF signed /\ t[1] = "-" THEN <<0 - digitsValue(ds)>>
        ELSE <<digitsValue(ds)>>

\* String(num) !== value, with String(-0) = "0"
stringOfNumberDiffers(num, value) == numberToString(num) # value

MinPort == 1

MaxPort == 65535

Valid == [valid |-> TRUE, message |-> Undefined]

Invalid(message) == [valid |-> FALSE, message |-> <<message>>]

port(value) ==
    IF value = <<>> THEN Valid
    ELSE LET num == parseInt(value)
         IN  IF num = <<>> \/ num[1] < MinPort \/ num[1] > MaxPort
                \/ stringOfNumberDiffers(num[1], value)
             THEN Invalid("must be a valid port number (1-65535)")
             ELSE Valid

boolean(value) ==
    IF value = <<>> THEN Valid
    ELSE IF value = Inherited THEN Threw
    ELSE IF toLowerCase(value) \in
              { <<"t","r","u","e">>, <<"f","a","l","s","e">>, <<"1">>, <<"0">>,
                <<"y","e","s">>, <<"n","o">>, <<"o","n">>, <<"o","f","f">> }
    THEN Valid
    ELSE Invalid("must be a boolean (true/false/1/0/yes/no)")

integer(value) ==
    IF value = <<>> THEN Valid
    ELSE LET num == parseInt(value)
         IN  IF num = <<>> \/ stringOfNumberDiffers(num[1], value)
             THEN Invalid("must be an integer")
             ELSE Valid

\* lines 10-18. new URL(value) has no base: it throws for a value without
\* ':', which has no scheme; values with ':' are not modelled
url(value) ==
    CASE value = <<>> -> Valid
      [] value # <<>> /\ (\A i \in 1..Len(value) : value[i] # ":") ->
             Invalid("must be a valid URL")

\* lines 40-47. The pattern asks for an '@'; values with '@' are not modelled
email(value) ==
    CASE value = <<>> -> Valid
      [] value # <<>> /\ (\A i \in 1..Len(value) : value[i] # "@") ->
             Invalid("must be a valid email address")

\* parseFloat(value) is NaN: after leading white space and a sign comes
\* neither a digit, nor '.' and a digit, nor Infinity
parseFloatIsNaN(value) ==
    LET t == trimStart(value)
        u == IF t # <<>> /\ t[1] \in {"+", "-"} THEN Tail(t) ELSE t
    IN  ~ \/ u # <<>> /\ u[1] \in Digits
          \/ Len(u) >= 2 /\ u[1] = "." /\ u[2] \in Digits
          \/ startsWith(u, <<"I","n","f","i","n","i","t","y">>)

\* lines 49-55
number(value) ==
    IF value = <<>> THEN Valid
    ELSE IF parseFloatIsNaN(value) THEN Invalid("must be a number")
    ELSE Valid

\* lines 70-78. JSON.parse(value) returns for digits without a leading zero
\* and throws for letters that are no literal; other values are not modelled
json(value) ==
    CASE value = <<>> -> Valid
      [] value # <<>> /\ digitPrefix(value) = value /\ (Len(value) = 1 \/ value[1] # "0") -> Valid
      [] value # <<>> /\ wordPrefix(value) = value /\ value[1] \notin Digits
         /\ value \notin { <<"t","r","u","e">>, <<"f","a","l","s","e">>, <<"n","u","l","l">> } ->
             Invalid("must be valid JSON")

UuidLen == 36

\* lines 80-87. The pattern matches 36 characters; values of 36 characters
\* are not modelled
uuid(value) ==
    CASE value = <<>> -> Valid
      [] value # <<>> /\ Len(value) # UuidLen -> Invalid("must be a valid UUID")

\* the validators by name; a name that is no own property of typeValidators
\* is looked up on Object.prototype
validateType(value, type) ==
    LET name == toLowerCase(type)
    IN  CASE name = <<"p","o","r","t">> -> port(value)
          [] name = <<"u","r","l">> -> url(value)
          [] name = <<"e","m","a","i","l">> -> email(value)
          [] name = <<"n","u","m","b","e","r">> -> number(value)
          [] name = <<"j","s","o","n">> -> json(value)
          [] name = <<"u","u","i","d">> -> uuid(value)
          [] name \in {<<"b","o","o","l","e","a","n">>, <<"b","o","o","l">>} -> boolean(value)
          [] name \in {<<"i","n","t","e","g","e","r">>, <<"i","n","t">>} -> integer(value)
          [] name \in {<<"s","t","r","i","n","g">>, <<"s","t","r">>} -> Valid
          [] name = ProtoKey -> Threw
          [] name = <<"c","o","n","s","t","r","u","c","t","o","r">> ->
                 [valid |-> FALSE, message |-> Undefined]
          [] name \notin { <<"u","r","l">>, <<"e","m","a","i","l">>, <<"n","u","m","b","e","r">>,
                           <<"j","s","o","n">>, <<"u","u","i","d">> } ->
                 [valid |-> TRUE, message |-> <<"Unknown type '%'">>]

(***************************************************************************)
(* readEnvFile, src/src/index.js 224-245                                   *)
(***************************************************************************)
\* a path with no file behind it
NoFile == <<"[no file]">>

\* the working directory of the process
Cwd == <<"/", "a", "p", "p">>

\* path.resolve of a path without . and .. segments
resolve(filePath) ==
    IF startsWith(filePath, <<"/">>) THEN filePath ELSE Cwd \o <<"/">> \o filePath

readEnvFile(fs, filePath) ==
    IF fs[filePath] = NoFile
    THEN [exists |-> FALSE, path |-> resolve(filePath), variables |-> EmptyObject,
          errors |-> <<[message |-> Message("File not found: %", <<resolve(filePath)>>)]>>,
          warnings |-> <<>>, lineInfo |-> EmptyObject, typeHints |-> EmptyObject]
    ELSE LET result == parseEnv(fs[filePath])
         IN  [exists |-> TRUE, path |-> resolve(filePath), variables |-> result.variables,
              errors |-> result.errors, warnings |-> result.warnings,
              lineInfo |-> result.lineInfo, typeHints |-> result.typeHints]

(***************************************************************************)
(* compare, src/src/index.js 253-306                                       *)
(***************************************************************************)
\* every example key reported, also those the env has
missingOf_AllExampleKeys(env, example) ==
    LET missingKeys == ObjectKeys(example.variables)
    IN  [i \in 1..Len(missingKeys) |->
           [key |-> missingKeys[i],
            exampleValue |-> Get(example.variables, missingKeys[i]),
            line |-> GetLine(example.lineInfo, missingKeys[i])]]

\* the line looked up in the env file, which has no such key
missingOf_EnvLine(env, example) ==
    LET isMissing(key) == ~HasOwn(env.variables, key)
        missingKeys    == SelectSeq(ObjectKeys(example.variables), isMissing)
    IN  [i \in 1..Len(missingKeys) |->
           [key |-> missingKeys[i],
            exampleValue |-> Get(example.variables, missingKeys[i]),
            line |-> GetLine(env.lineInfo, missingKeys[i])]]

\* lines 274-282: in example but not in env
missingOf(env, example) ==
    LET isMissing(key) == ~HasOwn(env.variables, key)
        missingKeys    == SelectSeq(ObjectKeys(example.variables), isMissing)
    IN  [i \in 1..Len(missingKeys) |->
           [key |-> missingKeys[i],
            exampleValue |-> Get(example.variables, missingKeys[i]),
            line |-> GetLine(example.lineInfo, missingKeys[i])]]

\* lines 285-293: in env but not in example
extraOf(env, example) ==
    LET isExtra(key) == ~HasOwn(example.variables, key)
        extraKeys    == SelectSeq(ObjectKeys(env.variables), isExtra)
    IN  [i \in 1..Len(extraKeys) |->
           [key |-> extraKeys[i],
            value |-> Get(env.variables, extraKeys[i]),
            line |-> GetLine(env.lineInfo, extraKeys[i])]]

\* every empty env key reported, also those the example lacks
emptyOf_AnyEnvKey(env, example) ==
    LET isEmpty(key) == Get(env.variables, key) = <<>>
        emptyKeys    == SelectSeq(ObjectKeys(env.variables), isEmpty)
    IN  [i \in 1..Len(emptyKeys) |->
           [key |-> emptyKeys[i], line |-> GetLine(env.lineInfo, emptyKeys[i])]]

\* lines 296-303: in both but empty in env
emptyOf(env, example) ==
    LET isEmpty(key) == HasOwn(example.variables, key) /\ Get(env.variables, key) = <<>>
        emptyKeys    == SelectSeq(ObjectKeys(env.variables), isEmpty)
    IN  [i \in 1..Len(emptyKeys) |->
           [key |-> emptyKeys[i], line |-> GetLine(env.lineInfo, emptyKeys[i])]]

\* only the env file's existence tested
comparable_EnvOnly(env, example) == env.exists

\* lines 266-268: nothing is compared unless both files exist
comparable(env, example) == env.exists /\ example.exists

\* compare on the two files as read
compareFiles(env, example) ==
    IF ~comparable(env, example)
    THEN [env |-> env, example |-> example,
          missing |-> <<>>, extra |-> <<>>, empty |-> <<>>, different |-> <<>>]
    ELSE [env |-> env, example |-> example,
          missing |-> missingOf(env, example),
          extra   |-> extraOf(env, example),
          empty   |-> emptyOf(env, example),
          different |-> <<>>]

\* compare with its two reads made on two file-system snapshots
compareWith(fsEnv, fsExample, envPath, examplePath) ==
    compareFiles(readEnvFile(fsEnv, envPath), readEnvFile(fsExample, examplePath))

compare(fs, envPath, examplePath) == compareWith(fs, fs, envPath, examplePath)

(***************************************************************************)
(* validate, src/src/index.js 328-419                                      *)
(***************************************************************************)
\* required.includes(key)
includes(array, key) == \E i \in 1..Len(array) : array[i] = key

Issue(type, line, message) == [type |-> type, line |-> line, message |-> message]

\* lines 349-358: parse errors
validateParseErrors(acc, env) ==
    IF Len(env.errors) > 0
    THEN [valid |-> FALSE,
          issues |-> acc.issues \o
                     [i \in 1..Len(env.errors) |->
                        Issue("error", <<env.errors[i].line>>, env.errors[i].message)]]
    ELSE acc

\* lines 361-376: required variables, in the order of the list
RECURSIVE validateRequired(_, _, _)
validateRequired(acc, env, required) ==
    IF required = <<>> THEN acc
    ELSE LET key == Head(required)
             next ==
                 IF ~In(env.variables, key)
                 THEN [valid |-> FALSE,
                       issues |-> Append(acc.issues,
                           Issue("error", <<>>, Message("Missing required variable: %", <<key>>)))]
                 ELSE IF Get(env.variables, key) = <<>>
                 THEN [valid |-> FALSE,
                       issues |-> Append(acc.issues,
                           Issue("error", GetLine(env.lineInfo, key),
                                 Message("Required variable '%' is empty", <<key>>)))]
                 ELSE acc
         IN  validateRequired(next, env, Tail(required))

\* lines 379-389: empty values
validateNoEmpty(acc, env, required, noEmpty) ==
    LET isEmpty(entry) == entry[2] = <<>> /\ ~includes(required, entry[1])
        empties == SelectSeq(env.variables, isEmpty)
    IN  IF noEmpty
        THEN [valid |-> acc.valid,
              issues |-> acc.issues \o
                         [i \in 1..Len(empties) |->
                            Issue("warning", GetLine(env.lineInfo, empties[i][1]),
                                  Message("Variable '%' is empty", <<empties[i][1]>>))]]
        ELSE acc

\* lines 394-406: the loop over the merged types; Threw when a validator throws
RECURSIVE validateAllTypes(_, _, _)
validateAllTypes(acc, env, allTypes) ==
    IF allTypes = <<>> \/ acc = Threw THEN acc
    ELSE LET key        == allTypes[1][1]
             typeName   == allTypes[1][2]
             value      == Get(env.variables, key)
             typeResult == validateType(value, typeName)
             next ==
                 IF In(env.variables, key) /\ value # <<>>
                 THEN IF typeResult = Threw THEN Threw
                      ELSE IF ~typeResult.valid
                      THEN [valid |-> FALSE,
                            issues |-> Append(acc.issues,
                                Issue("error", GetLine(env.lineInfo, key),
                                      Message("Variable '%' % (got: %)",
                                              <<key, typeResult.message, value>>)))]
                      ELSE acc
                 ELSE acc
         IN  validateAllTypes(next, env, Tail(allTypes))

\* lines 392-407
validateTypesStep(acc, env, types, validateTypes) ==
    IF validateTypes \/ Len(ObjectKeys(types)) > 0
    THEN validateAllTypes(acc, env, Spread(Spread(EmptyObject, env.typeHints), types))
    ELSE acc

\* lines 410-416: the parser's warnings
validateWarnings(acc, env) ==
    IF acc = Threw THEN Threw
    ELSE [valid |-> acc.valid,
          issues |-> acc.issues \o
                     [i \in 1..Len(env.warnings) |->
                        Issue("warning", <<env.warnings[i].line>>, env.warnings[i].message)]]

\* lines 349-416 with the loop of lines 410-416 moved before line 349: the
\* parser's warnings come first
validateSteps_WarningsFirst(env, options) ==
    validateTypesStep(
      validateNoEmpty(
        validateRequired(
          validateParseErrors(validateWarnings([valid |-> TRUE, issues |-> <<>>], env), env),
          env, options.required),
        env, options.required, options.noEmpty),
      env, options.types, options.validateTypes)

\* lines 349-416: the steps of validate on a file that exists, in order
validateSteps(env, options) ==
    validateWarnings(
      validateTypesStep(
        validateNoEmpty(
          validateRequired(
            validateParseErrors([valid |-> TRUE, issues |-> <<>>], env),
            env, options.required),
          env, options.required, options.noEmpty),
        env, options.types, options.validateTypes),
      env)

\* line 418: the result, or Threw when a validator threw
validateReturn(env, acc) ==
    IF acc = Threw THEN Threw
    ELSE [valid |-> acc.valid, env |-> env, issues |-> acc.issues]

\* lines 339-376 without the return of line 345: the required keys are
\* looked for after the file was found missing
validateFile_NoReturn(env, filePath, options) ==
    IF ~env.exists
    THEN [valid |-> FALSE, env |-> env,
          issues |-> <<Issue("error", <<>>, Message("File not found: %", <<filePath>>))>>
                     \o validateRequired([valid |-> TRUE, issues |-> <<>>], env,
                                         options.required).issues]
    ELSE validateReturn(env, validateSteps(env, options))

\* lines 333-418: validate on the file as read
validateFile(env, filePath, options) ==
    IF ~env.exists
    THEN [valid |-> FALSE, env |-> env,
          issues |-> <<Issue("error", <<>>, Message("File not found: %", <<filePath>>))>>]
    ELSE validateReturn(env, validateSteps(env, options))

\* validate on the file system fs: [valid, env, issues], or Threw
validate(fs, filePath, options) == validateFile(readEnvFile(fs, filePath), filePath, options)

(***************************************************************************)
(* check, src/src/index.js 427-522                                         *)
(***************************************************************************)
\* if (examplePath)
truthy(examplePath) == examplePath # Null /\ examplePath # <<>>

\* lines 480-486: missing variables are errors
checkMissing(acc, comparison) ==
    IF Len(comparison.missing) > 0
    THEN [valid |-> FALSE,
          issues |-> acc.issues \o
                     [i \in 1..Len(comparison.missing) |->
                        Issue("error", <<>>,
                              Message("Missing variable '%' (defined in example at line %)",
                                      <<comparison.missing[i].key,
                                        lineToString(comparison.missing[i].line)>>))]]
    ELSE acc

\* line 491 left out: the promoted issue does not invalidate the result
checkEmpty_KeepsValid(acc, comparison, strict) ==
    [valid  |-> acc.valid,
     issues |-> acc.issues \o
                [i \in 1..Len(comparison.empty) |->
                   Issue(IF strict THEN "error" ELSE "warning", comparison.empty[i].line,
                         Message("Variable '%' is empty", <<comparison.empty[i].key>>))]]

\* strict promoting every warning collected so far
checkEmpty_PromotesAll(acc, comparison, strict) ==
    [valid  |-> IF strict /\ Len(comparison.empty) > 0 THEN FALSE ELSE acc.valid,
     issues |-> [i \in 1..Len(acc.issues) |->
                   IF strict THEN [acc.issues[i] EXCEPT !.type = "error"] ELSE acc.issues[i]] \o
                [i \in 1..Len(comparison.empty) |->
                   Issue(IF strict THEN "error" ELSE "warning", comparison.empty[i].line,
                         Message("Variable '%' is empty", <<comparison.empty[i].key>>))]]

\* lines 489-497: empty variables are warnings, or errors in strict mode
checkEmpty(acc, comparison, strict) ==
    [valid  |-> IF strict /\ Len(comparison.empty) > 0 THEN FALSE ELSE acc.valid,
     issues |-> acc.issues \o
                [i \in 1..Len(comparison.empty) |->
                   Issue(IF strict THEN "error" ELSE "warning", comparison.empty[i].line,
                         Message("Variable '%' is empty", <<comparison.empty[i].key>>))]]

\* the noExtra test left out
checkExtra_Always(acc, comparison, noExtra) ==
    [valid  |-> IF Len(comparison.extra) > 0 THEN FALSE ELSE acc.valid,
     issues |-> acc.issues \o
                [i \in 1..Len(comparison.extra) |->
                   Issue("error", comparison.extra[i].line,
                         Message("Extra variable '%' not in example",
                                 <<comparison.extra[i].key>>))]]

\* lines 500-509: extra variables are errors if noExtra
checkExtra(acc, comparison, noExtra) ==
    IF noExtra
    THEN [valid  |-> IF Len(comparison.extra) > 0 THEN FALSE ELSE acc.valid,
          issues |-> acc.issues \o
                     [i \in 1..Len(comparison.extra) |->
                        Issue("error", comparison.extra[i].line,
                              Message("Extra variable '%' not in example",
                                      <<comparison.extra[i].key>>))]]
    ELSE acc

\* lines 513-519: count issues
RECURSIVE countIssues(_, _)
countIssues(summary, issues) ==
    IF issues = <<>> THEN summary
    ELSE countIssues(
           IF Head(issues).type = "error"
           THEN [summary EXCEPT !.errors = @ + 1]
           ELSE [summary EXCEPT !.warnings = @ + 1],
           Tail(issues))

\* the spread the other way round: the example's hints win
mergeTypes_HintsWin(exampleTypeHints, types) ==
    Spread(Spread(EmptyObject, types), exampleTypeHints)

\* line 457: example hints < explicit types
mergeTypes(exampleTypeHints, types) == Spread(Spread(EmptyObject, exampleTypeHints), types)

\* check with each of its four file reads made on its own file-system
\* snapshot: the example for its hints (line 450), the env in validate
\* (line 331), the env and the example in compare (lines 254-255)
\* lines 448-454: the example's type hints, if an example is given and exists
exampleTypeHintsOf(examplePath, example) ==
    IF truthy(examplePath) /\ example.exists THEN example.typeHints ELSE EmptyObject

\* lines 460-465: the options validate is called with
validationOptions(options, mergedTypes) ==
    [required |-> options.required,
     noEmpty |-> options.noEmpty,
     types |-> mergedTypes,
     validateTypes |-> options.validateTypes \/ Len(ObjectKeys(mergedTypes)) > 0]

\* lines 467-471: validate's flag and issues taken over
checkValidated(validation) == [valid |-> validation.valid, issues |-> validation.issues]

\* lines 480-509: the comparison's missing, empty and extra lists turned into issues
checkCompared(validated, comparison, options) ==
    checkExtra(
      checkEmpty(checkMissing(validated, comparison), comparison, options.strict),
      comparison, options.noExtra)

\* lines 472, 477, 513-521: the result with the comparison
checkReturnCompared(acc, env, comparison) ==
    [valid |-> acc.valid, issues |-> acc.issues,
     summary |-> countIssues([errors |-> 0, warnings |-> 0], acc.issues),
     env |-> env, comparison |-> comparison]

\* lines 472, 513-521: the result without a comparison
checkReturn(acc, env) ==
    [valid |-> acc.valid, issues |-> acc.issues,
     summary |-> countIssues([errors |-> 0, warnings |-> 0], acc.issues),
     env |-> env]

\* lines 467-521 on validate's result and, if an example is given, compare's
checkFiles(validation, comparison, options) ==
    IF validation = Threw THEN Threw
    ELSE IF truthy(options.examplePath)
    THEN checkReturnCompared(
           checkCompared(checkValidated(validation), comparison, options),
           validation.env, comparison)
    ELSE checkReturn(checkValidated(validation), validation.env)

checkWith(fsHints, fsValidate, fsCompareEnv, fsCompareExample, envPath, options) ==
    checkFiles(
      validate(fsValidate, envPath,
               validationOptions(options,
                 mergeTypes(exampleTypeHintsOf(options.examplePath,
                                               readEnvFile(fsHints, options.examplePath)),
                            options.types))),
      compareWith(fsCompareEnv, fsCompareExample, envPath, options.examplePath),
      options)

check(fs, envPath, options) == checkWith(fs, fs, fs, fs, envPath, options)

(***************************************************************************)
(* generate, list, src/src/index.js 530-555                                *)
(***************************************************************************)
\* what generate gives instead of a result when line 534 throws
ThrewNotFound == <<"[Error: Example file not found]">>

\* line 540: key in defaults ? defaults[key] : value
newValue(defaults, key, value) == IF In(defaults, key) THEN Get(defaults, key) ELSE value

\* lines 539-542: the lines of the entries of example.variables; in the
\* template literal an inherited function stands as its source text
RECURSIVE generateLines(_, _)
generateLines(variables, defaults) ==
    IF variables = <<>> THEN <<>>
    ELSE <<variables[1][1] \o <<"=">> \o newValue(defaults, variables[1][1], variables[1][2])>>
         \o generateLines(Tail(variables), defaults)

\* lines 533-544 on the example as read
generateFrom(example, defaults) ==
    IF ~example.exists THEN ThrewNotFound
    ELSE join(generateLines(example.variables, defaults)) \o <<"\n">>

generate(fs, examplePath, defaults) == generateFrom(readEnvFile(fs, examplePath), defaults)

\* line 554: Object.keys(env.variables)
listKeys(variables) == ObjectKeys(variables)

list(fs, filePath) == listKeys(readEnvFile(fs, filePath).variables)

(***************************************************************************)
(* runCheck's exit status, src/bin/cli.js 145-173                          *)
(***************************************************************************)
exitCode(checkResult) ==
    IF Len(checkResult.issues) = 0 THEN 0
    ELSE IF checkResult.valid THEN 0 ELSE 1

(***************************************************************************)
(* The file system and the calls                                           *)
(***************************************************************************)
EnvPath == <<".env">>

ExamplePath == <<".env.example">>

Paths == {EnvPath, ExamplePath}

KeyA == <<"A">>

KeyB == <<"B">>

KeyToString == <<"t","o","S","t","r","i","n","g">>

TypePort == <<"p","o","r","t">>

TypeString == <<"s","t","r","i","n","g">>

\* the lines an env file is made of
EnvLines ==
    { <<"A","=">>,
      <<"A","=","x">>,
      <<"B","=">>,
      <<"j","u","n","k">> }

\* the lines an example file is made of
ExampleLines ==
    { <<"A","=">>,
      <<"B","=","5">>,
      <<"#"," ","t","y","p","e",":"," ","p","o","r","t">> }

\* the most lines the two files have together
MaxLines == 3

\* the files of n lines out of a set of lines; no file for n = 0
Files(lines, n) ==
    IF n = 0 THEN {NoFile} ELSE { join(ls) : ls \in [1..n -> lines] }

FileSystems ==
    UNION { { [p \in Paths |-> IF p = EnvPath THEN e ELSE x] :
                e \in Files(EnvLines, n[1]), x \in Files(ExampleLines, n[2]) } :
            n \in { m \in (0..MaxLines) \X (0..MaxLines) : m[1] + m[2] <= MaxLines } }

RequiredLists == { <<>>, <<KeyA>>, <<KeyA, KeyA>>, <<KeyB, KeyA>>, <<KeyToString>> }

TypeMaps == { EmptyObject, <<<<KeyA, TypeString>>>>, <<<<KeyA, TypePort>>>> }

DefaultOptions ==
    [examplePath |-> Null, required |-> <<>>, noEmpty |-> FALSE, noExtra |-> FALSE,
     strict |-> FALSE, types |-> EmptyObject, validateTypes |-> FALSE]

ValidateOptions ==
    { [DefaultOptions EXCEPT !.required = r, !.noEmpty = ne, !.types = t] :
        r \in RequiredLists, ne \in BOOLEAN, t \in TypeMaps }

CheckOptions ==
    { [DefaultOptions EXCEPT !.examplePath = x, !.required = r, !.noEmpty = ne,
                             !.noExtra = nx, !.strict = s, !.types = t] :
        x \in {Null, ExamplePath}, r \in {<<>>, <<KeyA>>}, ne \in BOOLEAN, nx \in BOOLEAN,
        s \in BOOLEAN, t \in TypeMaps }

Calls ==
    {[op |-> "compare", options |-> DefaultOptions]}
    \cup { [op |-> "validate", options |-> o] : o \in ValidateOptions }
    \cup { [op |-> "check", options |-> o] : o \in CheckOptions }

NoResult == [pending |-> TRUE]

VARIABLES fs, call, pc, result

vars == <<fs, call, pc, result>>

\* the call reads the path
Reads(c, path) ==
    \/ path = EnvPath
    \/ c.op = "compare"
    \/ c.op = "check" /\ c.options.examplePath = path

\* a call, and a file system with files at no other paths than those it reads
Init ==
    /\ call \in Calls
    /\ fs \in FileSystems
    /\ \A path \in Paths : ~Reads(call, path) => fs[path] = NoFile
    /\ pc = "call"
    /\ result = NoResult

\* compare(envPath, examplePath)
Compare ==
    /\ pc = "call"
    /\ call.op = "compare"
    /\ result' = compare(fs, EnvPath, ExamplePath)
    /\ pc' = "return"
    /\ UNCHANGED <<fs, call>>

\* validate(envPath, options)
Validate ==
    /\ pc = "call"
    /\ call.op = "validate"
    /\ result' = validate(fs, EnvPath, call.options)
    /\ pc' = IF result' = Threw THEN "throw" ELSE "return"
    /\ UNCHANGED <<fs, call>>

\* check(envPath, options)
Check ==
    /\ pc = "call"
    /\ call.op = "check"
    /\ result' = check(fs, EnvPath, call.options)
    /\ pc' = IF result' = Threw THEN "throw" ELSE "return"
    /\ UNCHANGED <<fs, call>>

Next == Compare \/ Validate \/ Check

Spec == Init /\ [][Next]_vars

(***************************************************************************)
(* What a file says, read off its text                                     *)
(***************************************************************************)
Exists(path) == fs[path] # NoFile

EqualsAt(line) == indexOf(line, <<"=">>)

\* the name a line assigns to: what stands before its first = sign, trimmed;
\* none for a comment, a line without = and a line with nothing before it
NameOf(line) ==
    LET eq == EqualsAt(line)
    IN  IF eq = -1 \/ startsWith(trimStart(line), <<"#">>) THEN <<>>
        ELSE trim(slice(line, 0, eq))

\* the line is an assignment to key
Assigns(line, key) == key # <<>> /\ NameOf(line) = key

\* the keys a file assigns; none for a path without a file.  For names that
\* are no accessor of Object.prototype these are the variables of the file.
KeysOf(content) ==
    IF content = NoFile THEN {}
    ELSE LET ls == split(content)
         IN  { NameOf(ls[n]) : n \in 1..Len(ls) } \ {<<>>}

\* the 1-based number of the last line that assigns key
LastLineOf(content, key) ==
    LET ls == split(content)
    IN  CHOOSE n \in 1..Len(ls) :
          /\ Assigns(ls[n], key)
          /\ \A m \in (n + 1)..Len(ls) : ~Assigns(ls[m], key)

\* the value the last assignment of key gives it
ValueOf(content, key) ==
    LET line == split(content)[LastLineOf(content, key)]
    IN  parseValue(sliceFrom(line, EqualsAt(line) + 1))

EnvKeys == KeysOf(fs[EnvPath])

ExampleKeys == KeysOf(fs[ExamplePath])

\* the keys both files assign whose env value is the empty string
SharedEmptyKeys == { k \in EnvKeys \cap ExampleKeys : ValueOf(fs[EnvPath], k) = <<>> }

Returned(op) == pc = "return" /\ call.op = op

KeySet(items) == { items[i].key : i \in 1..Len(items) }

\* the positions of the issues with this message text about this key
IssuesAbout(issues, text, key) ==
    { i \in 1..Len(issues) :
        /\ issues[i].message.text = text
        /\ Len(issues[i].message.args) >= 1
        /\ issues[i].message.args[1] = key }

ErrorsOf(issues) == { i \in 1..Len(issues) : issues[i].type = "error" }

WarningsOf(issues) == { i \in 1..Len(issues) : issues[i].type # "error" }

(***************************************************************************)
(* Properties                                                              *)
(***************************************************************************)
\* C1: in every result of check(), valid is true exactly when no issue is an
\* error, summary.errors is the number of error issues, summary.warnings the
\* number of all other issues, and the two add up to issues.length.
C1_ValidAndSummary ==
    Returned("check") =>
        /\ result.valid = (ErrorsOf(result.issues) = {})
        /\ result.summary.errors = Cardinality(ErrorsOf(result.issues))
        /\ result.summary.warnings = Cardinality(WarningsOf(result.issues))
        /\ result.summary.errors + result.summary.warnings = Len(result.issues)

\* a check that promoted an empty shared variable and also kept a warning
C1_Witness ==
    /\ Returned("check")
    /\ call.options.strict
    /\ SharedEmptyKeys # {}
    /\ result.summary.errors >= 1
    /\ result.summary.warnings >= 1
    /\ ~result.valid

\* C2: with both files present, compare() gives missing = the example's keys
\* that are not the env's, each with the example's value and line; extra =
\* the env's keys that are not the example's, each with the env's value and
\* line; empty = the keys of both files whose env value is the empty string.
C2_CompareLists ==
    (Returned("compare") /\ Exists(EnvPath) /\ Exists(ExamplePath)) =>
        /\ KeySet(result.missing) = ExampleKeys \ EnvKeys
        /\ Len(result.missing) = Cardinality(KeySet(result.missing))
        /\ \A i \in 1..Len(result.missing) :
             /\ result.missing[i].exampleValue = ValueOf(fs[ExamplePath], result.missing[i].key)
             /\ result.missing[i].line = <<LastLineOf(fs[ExamplePath], result.missing[i].key)>>
        /\ KeySet(result.extra) = EnvKeys \ ExampleKeys
        /\ Len(result.extra) = Cardinality(KeySet(result.extra))
        /\ \A i \in 1..Len(result.extra) :
             /\ result.extra[i].value = ValueOf(fs[EnvPath], result.extra[i].key)
             /\ result.extra[i].line = <<LastLineOf(fs[EnvPath], result.extra[i].key)>>
        /\ KeySet(result.empty) = SharedEmptyKeys
        /\ Len(result.empty) = Cardinality(KeySet(result.empty))

\* a comparison with an empty shared key and an empty key only the env has
C2_Witness ==
    /\ Returned("compare")
    /\ Len(result.empty) = 1
    /\ Len(result.extra) = 1
    /\ result.extra[1].value = <<>>
    /\ result.extra[1].key \notin KeySet(result.empty)

\* C3: when the env file or the example file does not exist, compare()
\* returns missing, extra and empty all empty, and check() given that example
\* path reports the issues of the same check without an example and no other.
C3_MissingFileComparesEmpty ==
    /\ (Returned("compare") /\ (~Exists(EnvPath) \/ ~Exists(ExamplePath))) =>
          /\ result.missing = <<>>
          /\ result.extra = <<>>
          /\ result.empty = <<>>
    /\ (Returned("check") /\ call.options.examplePath = ExamplePath
          /\ (~Exists(EnvPath) \/ ~Exists(ExamplePath))) =>
          /\ result.comparison.missing = <<>>
          /\ result.comparison.extra = <<>>
          /\ result.comparison.empty = <<>>
          /\ result.issues =
                check(fs, EnvPath, [call.options EXCEPT !.examplePath = Null]).issues

\* a strict, no-extra check of an env file with an empty key against an
\* example path with no file
C3_Witness ==
    /\ Returned("check")
    /\ call.options.examplePath = ExamplePath
    /\ ~Exists(ExamplePath)
    /\ call.options.strict
    /\ call.options.noExtra
    /\ \E k \in EnvKeys : ValueOf(fs[EnvPath], k) = <<>>
    /\ result.valid

\* C4 as stated: for the key sets A of the env and B of the example,
\* missing.length + |A \cap B| = |B| and extra.length + |A \cap B| = |A|.
C4_TotalityAnyFiles ==
    Returned("compare") =>
        /\ Len(result.missing) + Cardinality(EnvKeys \cap ExampleKeys) = Cardinality(ExampleKeys)
        /\ Len(result.extra) + Cardinality(EnvKeys \cap ExampleKeys) = Cardinality(EnvKeys)

\* C4 amended: the two equations hold whenever both files exist.
C4_Totality ==
    (Returned("compare") /\ Exists(EnvPath) /\ Exists(ExamplePath)) =>
        /\ Len(result.missing) + Cardinality(EnvKeys \cap ExampleKeys) = Cardinality(ExampleKeys)
        /\ Len(result.extra) + Cardinality(EnvKeys \cap ExampleKeys) = Cardinality(EnvKeys)

\* a comparison with a shared key and a missing key
C4_Witness ==
    /\ Returned("compare")
    /\ EnvKeys \cap ExampleKeys # {}
    /\ Len(result.missing) >= 1

TextEmpty == "Variable '%' is empty"

TextRequiredEmpty == "Required variable '%' is empty"

TextMissingRequired == "Missing required variable: %"

TextMissing == "Missing variable '%' (defined in example at line %)"

TextExtra == "Extra variable '%' not in example"

TextType == "Variable '%' % (got: %)"

ElementsOf(items) == { items[i] : i \in 1..Len(items) }

\* C5: in validate(), a required key present with the empty string gives
\* exactly one emptiness issue, an error, noEmpty or not; a required key the
\* file lacks gives an error and valid = false; under noEmpty every empty
\* variable not in the required list gives one warning, which alone leaves
\* the result valid.
C5_RequiredAndNoEmpty ==
    (Returned("validate") /\ Exists(EnvPath)) =>
        LET required == ElementsOf(call.options.required)
            emptiness(k) == IssuesAbout(result.issues, TextRequiredEmpty, k)
                            \cup IssuesAbout(result.issues, TextEmpty, k)
        IN  /\ \A k \in required \cap EnvKeys :
                 ValueOf(fs[EnvPath], k) = <<>> =>
                     /\ Cardinality(emptiness(k)) = 1
                     /\ \A i \in emptiness(k) : result.issues[i].type = "error"
            /\ \A k \in required \ EnvKeys :
                 /\ ~result.valid
                 /\ \E i \in IssuesAbout(result.issues, TextMissingRequired, k) :
                      result.issues[i].type = "error"
            /\ call.options.noEmpty =>
                 \A k \in EnvKeys \ required :
                   ValueOf(fs[EnvPath], k) = <<>> =>
                       /\ Cardinality(emptiness(k)) = 1
                       /\ \A i \in emptiness(k) : result.issues[i].type = "warning"
            /\ ErrorsOf(result.issues) = {} => result.valid

\* the result of the same check without strict
WithoutStrict == check(fs, EnvPath, [call.options EXCEPT !.strict = FALSE])

C7_StrictFailsOnWarnings ==
    (Returned("check") /\ call.options.strict /\ WarningsOf(result.issues) # {}) =>
        /\ ~result.valid
        /\ exitCode(result) # 0

\* the result of the same check without noExtra
WithoutNoExtra == check(fs, EnvPath, [call.options EXCEPT !.noExtra = FALSE])

IsNotExtra(issue) == issue.message.text # TextExtra

MissingKeysAreErrors ==
    \A k \in ExampleKeys \ EnvKeys :
        /\ Cardinality(IssuesAbout(result.issues, TextMissing, k)) = 1
        /\ \A i \in IssuesAbout(result.issues, TextMissing, k) :
             /\ result.issues[i].type = "error"
             /\ result.issues[i].message.args[2]
                  = numberToString(LastLineOf(fs[ExamplePath], k))
        /\ ~result.valid

\* C9 as stated: in check(), every key the example defines and the env does
\* not gives exactly one error citing the example's line, and the result is
\* invalid.
C9_MissingKeysAnyEnv ==
    (Returned("check") /\ call.options.examplePath = ExamplePath) => MissingKeysAreErrors

\* C9 amended: the same whenever the env file exists.
C9_MissingKeys ==
    (Returned("check") /\ call.options.examplePath = ExamplePath /\ Exists(EnvPath)) =>
        MissingKeysAreErrors

\* a check of an existing env file that lacks the key of the example's
\* second line
C9_Witness ==
    /\ Returned("check")
    /\ call.options.examplePath = ExamplePath
    /\ Exists(EnvPath)
    /\ \E k \in ExampleKeys \ EnvKeys :
         /\ LastLineOf(fs[ExamplePath], k) = 2
         /\ IssuesAbout(result.issues, TextMissing, k) # {}

\* the type hints of the example file
ExampleHints == IF Exists(ExamplePath) THEN parseEnv(fs[ExamplePath]).typeHints ELSE EmptyObject

\* the result of the same check without explicit types
WithoutTypes == check(fs, EnvPath, [call.options EXCEPT !.types = EmptyObject])

\* C10: in check(), a variable with a type hint in the example and an entry
\* in the explicit types is validated against the explicit type only: under
\* an example hint port, explicit string lets a non-numeric value pass, and
\* without the explicit entry the same value is an error.
C10_ExplicitTypeWins ==
    (Returned("check") /\ call.options.examplePath = ExamplePath) =>
        \A k \in ElementsOf(ObjectKeys(ExampleHints)) \cap ElementsOf(ObjectKeys(call.options.types)) :
            LET explicit   == Get(call.options.types, k)
                hint       == Get(ExampleHints, k)
                typeIssues == IssuesAbout(result.issues, TextType, k)
                value      == ValueOf(fs[EnvPath], k)
            IN  IF k \notin EnvKeys \/ value = <<>>
                THEN typeIssues = {}
                ELSE LET without == WithoutTypes
                     IN  /\ IF validateType(value, explicit).valid
                            THEN typeIssues = {}
                            ELSE /\ Cardinality(typeIssues) = 1
                                 /\ \A i \in typeIssues :
                                      /\ result.issues[i].type = "error"
                                      /\ result.issues[i].message.args[2]
                                           = validateType(value, explicit).message
                         /\ (~validateType(value, hint).valid
                               /\ validateType(value, explicit).valid) =>
                                /\ Cardinality(IssuesAbout(without.issues, TextType, k)) = 1
                                /\ ~without.valid

\* a valid check of A=x against an example hinting port for A, with the
\* explicit type string for A
C10_Witness ==
    /\ Returned("check")
    /\ call.options.examplePath = ExamplePath
    /\ HasOwn(ExampleHints, KeyA)
    /\ Get(ExampleHints, KeyA) = TypePort
    /\ HasOwn(call.options.types, KeyA)
    /\ Get(call.options.types, KeyA) = TypeString
    /\ KeyA \in EnvKeys
    /\ ValueOf(fs[EnvPath], KeyA) = <<"x">>
    /\ result.valid
    /\ ~WithoutTypes.valid

(***************************************************************************)
(* The parser on its own: parse(content) and parseValue(raw)               *)
(***************************************************************************)
KeyK == <<"K">>

\* the lines a text given to parse is made of
ParseLineSet ==
    { <<>>,
      <<"K","=","a">>,
      <<"K","=","b">>,
      <<"B","=","1">>,
      <<"t","o","S","t","r","i","n","g","=","x">>,
      <<"_","_","p","r","o","t","o","_","_","=","x">>,
      <<"#"," ","t","y","p","e",":"," ","p","o","r","t">>,
      <<"#"," ","@","T","Y","P","E"," ","U","r","l">>,
      <<"#"," ","n","o","t","e">>,
      <<"j","u","n","k">>,
      <<"=","x">> }

\* the most lines a text given to parse has
MaxParseLines == 3

\* the texts of up to MaxParseLines lines
LineContents ==
    UNION { { join(ls) : ls \in [1..n -> ParseLineSet] } : n \in 0..MaxParseLines }

\* the strings of up to n characters out of chars
Strings(chars, n) == UNION { { <<>> \o f : f \in [1..k -> chars] } : k \in 0..n }

\* the characters a right-hand side is made of
RawChars == {"a", " ", "#", "\"", "'"}

\* the most characters a right-hand side has
MaxRawLen == 5

RawValues == Strings(RawChars, MaxRawLen)

KeyEquals == <<"K", "=">>

\* the one-line texts K=<right-hand side>
RawContents == { KeyEquals \o raw : raw \in RawValues }

\* the characters a value v of the round trips is made of
ValueChars == {"a", " ", "\n", "\t", "#", "\"", "\\", "="}

\* the most characters a value v has
MaxValueLen == 3

Values == Strings(ValueChars, MaxValueLen)

\* the texts "K=" + v
ValueContents == { KeyEquals \o v : v \in Values }

\* the texts 'K="' + v + '"'
QuotedContents == { KeyEquals \o DQ \o v \o DQ : v \in Values }

ParseContents == LineContents \cup RawContents \cup ValueContents \cup QuotedContents

\* the characters between the quotes of a right-hand side with escapes
EscapeChars == {BS, "n", "r", "t", "\""}

\* the most characters between the quotes
MaxEscapeLen == 3

\* what such a right-hand side opens with
EscapeOpenings == { <<>>, DQ, SQ, <<" ", "\"">> }

\* what it ends with
EscapeEndings == { <<>>, DQ, SQ, <<"\"", " ", "#">> }

\* the right-hand sides with escapes: quoted, unquoted, half quoted,
\* white space before the quote, a comment after it
EscapeRaws ==
    { open \o body \o end :
        open \in EscapeOpenings, body \in Strings(EscapeChars, MaxEscapeLen),
        end \in EscapeEndings }

ParseCalls ==
    { [op |-> "parse", content |-> c] : c \in ParseContents }
    \cup { [op |-> "parseValue", raw |-> raw] : raw \in RawValues \cup EscapeRaws }

\* no file is read by the parser
NoFiles == [p \in Paths |-> NoFile]

InitParse ==
    /\ call \in ParseCalls
    /\ fs = NoFiles
    /\ pc = "call"
    /\ result = NoResult

\* parse(content)
Parse ==
    /\ pc = "call"
    /\ call.op = "parse"
    /\ result' = parseEnv(call.content)
    /\ pc' = "return"
    /\ UNCHANGED <<fs, call>>

\* parseValue(raw)
ParseValue ==
    /\ pc = "call"
    /\ call.op = "parseValue"
    /\ result' = parseValue(call.raw)
    /\ pc' = "return"
    /\ UNCHANGED <<fs, call>>

NextParse == Parse \/ ParseValue

ParseSpec == InitParse /\ [][NextParse]_vars

TextDuplicate == "Duplicate variable '%' (previous at line %)"

\* the lines of a text
LinesOf(content) == split(content)

\* the numbers of the lines of a text that assign key
AssignmentsOf(content, key) ==
    { n \in 1..Len(LinesOf(content)) : Assigns(LinesOf(content)[n], key) }

\* the greatest number of a set of line numbers
Last(ns) == CHOOSE n \in ns : \A m \in ns : m <= n

\* the positions of the duplicate warnings a line gave
DuplicatesAt(warnings, n) ==
    { i \in 1..Len(warnings) :
        warnings[i].line = n /\ warnings[i].message.text = TextDuplicate }

\* C11: in parse(), the last assignment of a key wins: variables[key] is its
\* value and lineInfo[key] its line number; every assignment of a key after
\* the first adds exactly one Duplicate warning naming the line of the
\* assignment before it; a line whose key was not assigned earlier adds none.
C11_LastAssignmentWins ==
    Returned("parse") =>
        LET content == call.content
        IN  /\ \A k \in KeysOf(content) :
                 /\ Get(result.variables, k) = ValueOf(content, k)
                 /\ GetLine(result.lineInfo, k) = <<LastLineOf(content, k)>>
                 /\ \A n \in AssignmentsOf(content, k) :
                      LET earlier == { m \in AssignmentsOf(content, k) : m < n }
                          dups    == DuplicatesAt(result.warnings, n)
                      IN  IF earlier = {}
                          THEN dups = {}
                          ELSE /\ Cardinality(dups) = 1
                               /\ \A i \in dups :
                                    result.warnings[i].message.args
                                      = <<k, numberToString(Last(earlier))>>
            /\ \A i \in 1..Len(result.warnings) :
                 result.warnings[i].message.text = TextDuplicate =>
                     \E k \in KeysOf(content) :
                         result.warnings[i].line \in AssignmentsOf(content, k)

IsComment(line) == startsWith(trimStart(line), <<"#">>)

IsBlank(line) == trim(line) = <<>>

\* the type an annotation comment names, lowercased; Null for any other line
AnnotationOf(line) ==
    IF IsComment(line) /\ typeMatch(trim(line)) # Null
    THEN toLowerCase(typeMatch(trim(line)))
    ELSE Null

\* the hint pending when line n of ls is reached, read backwards from line
\* n - 1: the nearest annotation, unless a blank line or an assignment comes
\* first; other comments and malformed lines are passed over
RECURSIVE PendingBefore(_, _)
PendingBefore(ls, n) ==
    IF n = 1 THEN Null
    ELSE IF AnnotationOf(ls[n - 1]) # Null THEN AnnotationOf(ls[n - 1])
    ELSE IF IsComment(ls[n - 1]) THEN PendingBefore(ls, n - 1)
    ELSE IF IsBlank(ls[n - 1]) \/ NameOf(ls[n - 1]) # <<>> THEN Null
    ELSE PendingBefore(ls, n - 1)

\* C12: an annotation comment sets the pending hint to its type name
\* lowercased, replacing an earlier one; the hint goes to the first later
\* assignment and to none after it; a blank line before that assignment
\* discards it; other comments and malformed lines neither clear nor consume
\* it; an assignment with no pending hint gets no typeHints entry from its
\* line.
C12_PendingHint ==
    Returned("parse") =>
        LET content == call.content
            ls      == LinesOf(content)
        IN  /\ \A k \in KeysOf(content) :
                 LET hinted == { n \in AssignmentsOf(content, k) : PendingBefore(ls, n) # Null }
                 IN  IF hinted = {}
                     THEN ~HasOwn(result.typeHints, k)
                     ELSE /\ HasOwn(result.typeHints, k)
                          /\ Get(result.typeHints, k) = PendingBefore(ls, Last(hinted))
            /\ \A i \in 1..Len(result.typeHints) :
                 result.typeHints[i][1] \in KeysOf(content)

\* C13: for every text, in the result of parse() every key of typeHints is a
\* key of variables, lineInfo has the keys of variables, and an annotation
\* that no stored assignment follows leaves no typeHints entry.
C13_KeysConsistent ==
    Returned("parse") =>
        LET ls == LinesOf(call.content)
        IN  /\ ElementsOf(ObjectKeys(result.typeHints)) \subseteq ElementsOf(ObjectKeys(result.variables))
            /\ ElementsOf(ObjectKeys(result.lineInfo)) = ElementsOf(ObjectKeys(result.variables))
            /\ Len(result.lineInfo) = Len(result.variables)
            /\ (\A n \in 1..Len(ls) : NameOf(ls[n]) # <<>> => PendingBefore(ls, n) = Null)
                   => result.typeHints = EmptyObject

\* a text whose first annotation is attached to a variable and whose last
\* line is an annotation that nothing follows
C13_Witness ==
    /\ Returned("parse")
    /\ Len(result.typeHints) = 1
    /\ Len(result.variables) = 1
    /\ AnnotationOf(LinesOf(call.content)[Len(LinesOf(call.content))]) # Null

\* the right-hand side of the parse or parseValue call, when it has one
HasRaw ==
    \/ Returned("parseValue")
    \/ Returned("parse") /\ call.content \in RawContents

RawOf == IF call.op = "parseValue" THEN call.raw ELSE sliceFrom(call.content, Len(KeyEquals))

\* the value the call gave the right-hand side
ValueGiven == IF call.op = "parseValue" THEN result ELSE Get(result.variables, KeyK)

StartsWithQuote(t) == t # <<>> /\ t[1] \in {"\"", "'"}

\* t without its first and its last character
StripEnds(t) == SubSeq(t, 2, Len(t) - 1)

\* C14: a right-hand side whose trimmed form starts with ' or ", also one
\* with whitespace before the opening quote, is never comment-stripped: its
\* value is the trimmed form, whole or without its outer quotes.
C14_QuotedNeverStripped ==
    (HasRaw /\ StartsWithQuote(trim(RawOf))) =>
        ValueGiven \in { trim(RawOf), StripEnds(trim(RawOf)) }

\* C15: a right-hand side that opens with a quote and does not end with the
\* same quote, or is one quote character alone, is returned trimmed and
\* otherwise unchanged, and parse records no error for it.
C15_UnterminatedPassesThrough ==
    LET t == trim(RawOf)
    IN  (HasRaw /\ StartsWithQuote(t) /\ (Len(t) = 1 \/ t[Len(t)] # t[1])) =>
            /\ ValueGiven = t
            /\ call.op = "parse" => result.errors = <<>>

\* the characters of a string
CharsOf(v) == { v[i] : i \in 1..Len(v) }

\* parse("K=" + v) has returned
ReturnedKeyValue == Returned("parse") /\ startsWith(call.content, KeyEquals)

\* the v of parse("K=" + v)
PlainV == sliceFrom(call.content, Len(KeyEquals))

\* no '=', no '#', no quote character, no white space at either end
IsPlain(v) == CharsOf(v) \cap {"=", "#", "\"", "'"} = {} /\ trim(v) = v

\* C16: for every v with no '=', no '#', no quote character and no white
\* space at its start or end, parse("K=" + v).variables.K is v.
C16_RoundTrip ==
    (ReturnedKeyValue /\ IsPlain(PlainV)) => Get(result.variables, KeyK) = PlainV

\* C16 as amended: the same for every such v that has no line feed in it.
C16_RoundTripOneLine ==
    (ReturnedKeyValue /\ IsPlain(PlainV) /\ "\n" \notin CharsOf(PlainV)) =>
        Get(result.variables, KeyK) = PlainV

\* a one-line v with a space, a tab and a backslash inside came back whole
C16_Witness ==
    /\ ReturnedKeyValue
    /\ IsPlain(PlainV)
    /\ "\n" \notin CharsOf(PlainV)
    /\ CharsOf(PlainV) \cap {" ", "\t", "\\"} # {}
    /\ Get(result.variables, KeyK) = PlainV

KeyEqualsQuote == KeyEquals \o DQ

\* parse('K="' + v + '"') has returned
ReturnedQuoted ==
    /\ Returned("parse")
    /\ Len(call.content) > Len(KeyEqualsQuote)
    /\ startsWith(call.content, KeyEqualsQuote)
    /\ endsWith(call.content, DQ)

\* the v of parse('K="' + v + '"')
QuotedV == SubSeq(call.content, Len(KeyEqualsQuote) + 1, Len(call.content) - 1)

\* no double quote and no backslash
NeedsNoEscape(v) == CharsOf(v) \cap {"\"", "\\"} = {}

\* C17: for every v with no double quote and no backslash in it,
\* parse('K="' + v + '"').variables.K is v.
C17_QuotingIdempotent ==
    (ReturnedQuoted /\ NeedsNoEscape(QuotedV)) => Get(result.variables, KeyK) = QuotedV

\* C17 as amended: the same for every such v that has no line feed in it.
C17_QuotingIdempotentOneLine ==
    (ReturnedQuoted /\ NeedsNoEscape(QuotedV) /\ "\n" \notin CharsOf(QuotedV)) =>
        Get(result.variables, KeyK) = QuotedV

\* a one-line v that starts with a space and has ' #' in it came back whole
C17_Witness ==
    /\ ReturnedQuoted
    /\ NeedsNoEscape(QuotedV)
    /\ "\n" \notin CharsOf(QuotedV)
    /\ startsWith(QuotedV, <<" ">>)
    /\ indexOf(QuotedV, <<" ", "#">>) # -1
    /\ Get(result.variables, KeyK) = QuotedV

(***************************************************************************)
(* The type validators on their own                                        *)
(***************************************************************************)
\* the names of typeValidators, lines 10-87
RegisteredTypes ==
    { <<"u","r","l">>, TypePort, <<"b","o","o","l","e","a","n">>, <<"b","o","o","l">>,
      <<"e","m","a","i","l">>, <<"n","u","m","b","e","r">>, <<"i","n","t","e","g","e","r">>,
      <<"i","n","t">>, TypeString, <<"s","t","r">>, <<"j","s","o","n">>, <<"u","u","i","d">> }

TypeConstructor == <<"c","o","n","s","t","r","u","c","t","o","r">>

\* the type names of annotations and of options.types
TypeNames ==
    RegisteredTypes
    \cup { <<"P","o","r","t">>, <<"f","o","o">>, KeyToString, TypeConstructor, ProtoKey }

\* the values of the variable A
TypeValues == { <<>>, <<"x">>, <<"8","0">> }

AnnotationStart == <<"#"," ","t","y","p","e",":"," ">>

LineFeed == <<"\n">>

AssignA == <<"A","=">>

\* the env files: A=<value>, alone or under an annotation
TypedEnvFiles ==
    { AssignA \o v : v \in TypeValues }
    \cup { AnnotationStart \o t \o LineFeed \o AssignA \o v : t \in TypeNames, v \in TypeValues }

\* the example files: A= under an annotation
TypedExampleFiles == { AnnotationStart \o t \o LineFeed \o AssignA : t \in TypeNames }

\* options.types: nothing, a type for A, or a type for a key no file has
TypedTypeMaps ==
    {EmptyObject} \cup { <<<<KeyA, t>>>> : t \in TypeNames } \cup { <<<<KeyToString, TypePort>>>> }

TypeNumber == <<"n","u","m","b","e","r">>

\* the characters of the values given to the number validator
NumberChars == {"1", "0", ".", "-", "x"}

\* the most characters such a value has
MaxNumberLen == 3

NumberValues ==
    Strings(NumberChars, MaxNumberLen) \cup { <<"I","n","f","i","n","i","t","y">> }

TypeCalls ==
    { [op |-> "validateType", value |-> v, type |-> t] : v \in TypeValues, t \in TypeNames }
    \cup { [op |-> "validateType", value |-> v, type |-> TypeNumber] : v \in NumberValues }
    \cup { [op |-> "validate",
            options |-> [DefaultOptions EXCEPT !.required = r, !.noEmpty = ne, !.types = t,
                                               !.validateTypes = vt]] :
             r \in {<<>>, <<KeyA>>}, ne \in BOOLEAN, t \in TypedTypeMaps, vt \in BOOLEAN }
    \cup { [op |-> "check",
            options |-> [DefaultOptions EXCEPT !.examplePath = ExamplePath, !.noEmpty = ne]] :
             ne \in BOOLEAN }

\* validateType needs no file, validate the env file, check the example too
InitType ==
    /\ call \in TypeCalls
    /\ fs \in [Paths -> TypedEnvFiles \cup TypedExampleFiles \cup {NoFile}]
    /\ fs[EnvPath] \in (IF call.op = "validateType" THEN {NoFile} ELSE TypedEnvFiles)
    /\ fs[ExamplePath] \in (IF call.op = "check" THEN TypedExampleFiles ELSE {NoFile})
    /\ pc = "call"
    /\ result = NoResult

\* validateType(value, type)
ValidateType ==
    /\ pc = "call"
    /\ call.op = "validateType"
    /\ result' = validateType(call.value, call.type)
    /\ pc' = IF result' = Threw THEN "throw" ELSE "return"
    /\ UNCHANGED <<fs, call>>

NextType == ValidateType \/ Validate \/ Check

TypeSpec == InitType /\ [][NextType]_vars

\* the name is, in any case of its letters, none of the registered ones
IsUnknownType(t) == toLowerCase(t) \notin RegisteredTypes

\* the values of an object
ValuesOf(object) == { object[i][2] : i \in 1..Len(object) }

\* the type names of the annotations of the file at a path
HintNamesAt(path) ==
    IF fs[path] = NoFile THEN {} ELSE ValuesOf(parseEnv(fs[path]).typeHints)

\* the type names a validate() or check() call is given: in the annotations
\* of the files it reads and in options.types
TypeNamesGiven ==
    HintNamesAt(EnvPath) \cup HintNamesAt(ExamplePath) \cup ValuesOf(call.options.types)

\* the call is over, by a return or by a throw
Ended(op) == pc # "call" /\ call.op = op

TypeIssues(issues) == { i \in 1..Len(issues) : issues[i].message.text = TextType }

\* C18: validateType(value, type) returns valid = true for every value when
\* type is no registered name, and validate() and check() given unknown type
\* names only, in annotations or in options.types, return without a type
\* issue and do not throw.
C18_UnknownTypeIsValid ==
    /\ (Ended("validateType") /\ IsUnknownType(call.type)) =>
           (pc = "return" /\ result.valid = TRUE)
    /\ ((Ended("validate") \/ Ended("check")) /\ \A t \in TypeNamesGiven : IsUnknownType(t)) =>
           (pc = "return" /\ TypeIssues(result.issues) = {})

\* the env file assigns the empty string to A
EmptyA == fs[EnvPath] # NoFile /\ Get(parseEnv(fs[EnvPath]).variables, KeyA) = <<>>

\* C19: validateType('', type) is valid for every type name, and validate()
\* on a file whose variable is empty returns without a type issue about it,
\* whatever the type names.
C19_EmptyValueIsValid ==
    /\ (Ended("validateType") /\ call.value = <<>>) => (pc = "return" /\ result.valid = TRUE)
    /\ (Ended("validate") /\ EmptyA) =>
           (pc = "return" /\ IssuesAbout(result.issues, TextType, KeyA) = {})

\* C20: validate() on a path with no file returns valid = false with one
\* issue, an error, whatever the options are: nothing is reported for the
\* required keys, for noEmpty or for the types.
C20_MissingFileShortCircuits ==
    (Ended("validate") /\ fs[EnvPath] = NoFile) =>
        /\ pc = "return"
        /\ result.valid = FALSE
        /\ Len(result.issues) = 1
        /\ result.issues[1].type = "error"
        /\ result.issues[1].message.text = "File not found: %"

\* no file, and a required key, noEmpty and a type were asked for
C20_Witness ==
    /\ Returned("validate")
    /\ fs[EnvPath] = NoFile
    /\ call.options.required # <<>>
    /\ call.options.noEmpty
    /\ call.options.types # EmptyObject
    /\ Len(result.issues) = 1

TextNoEquals == "Invalid syntax: missing '=' sign"

TextEmptyName == "Empty variable name"

TextUnusual == "Variable name '%' contains unusual characters"

\* the place of an issue among the five groups of validate()
GroupOf(issue) ==
    CASE issue.message.text \in {TextNoEquals, TextEmptyName} -> 1
      [] issue.message.text \in {TextMissingRequired, TextRequiredEmpty} -> 2
      [] issue.message.text = TextEmpty -> 3
      [] issue.message.text = TextType -> 4
      [] issue.message.text \in {TextUnusual, TextDuplicate} -> 5

\* the issues of one group, in the order of the list
Group(issues, g) == LET InGroup(issue) == GroupOf(issue) = g IN SelectSeq(issues, InGroup)

\* the first argument of the message of every issue
FirstArgs(issues) == [i \in 1..Len(issues) |-> issues[i].message.args[1]]

\* the elements of items that are in set, in the order of items
Filter(items, set) == LET InSet(e) == e \in set IN SelectSeq(items, InSet)

\* validate() has returned for a file that exists
ValidatedFile == Returned("validate") /\ fs[EnvPath] # NoFile

\* C21: the issues of validate() for an existing file come in five groups:
\* the parse errors in line order, the required-key errors in the order of
\* the required list, the noEmpty warnings, the type errors, and last the
\* parser's warnings with line and message unchanged; valid is false exactly
\* when one of the issues is an error.
C21_IssuesOrdered ==
    ValidatedFile =>
        LET issues == result.issues
            env    == result.env
        IN  /\ \A i \in 1..Len(issues) - 1 : GroupOf(issues[i]) <= GroupOf(issues[i + 1])
            /\ Group(issues, 1) =
                   [i \in 1..Len(env.errors) |->
                      Issue("error", <<env.errors[i].line>>, env.errors[i].message)]
            /\ \A i \in 1..Len(env.errors) - 1 : env.errors[i].line < env.errors[i + 1].line
            /\ FirstArgs(Group(issues, 2)) =
                   Filter(call.options.required, ElementsOf(FirstArgs(Group(issues, 2))))
            /\ \A i \in 1..Len(issues) :
                   issues[i].type = IF GroupOf(issues[i]) \in {3, 5} THEN "warning" ELSE "error"
            /\ Group(issues, 5) =
                   [i \in 1..Len(env.warnings) |->
                      Issue("warning", <<env.warnings[i].line>>, env.warnings[i].message)]
            /\ \A i \in 1..Len(env.warnings) - 1 : env.warnings[i].line <= env.warnings[i + 1].line
            /\ result.valid = (ErrorsOf(issues) = {})

\* a list with a parse error, a required-key error, a type error and a
\* parser warning, four of the five groups
C21_Witness ==
    /\ ValidatedFile
    /\ Len(Group(result.issues, 1)) > 0
    /\ Len(Group(result.issues, 2)) > 0
    /\ Len(Group(result.issues, 4)) > 0
    /\ Len(Group(result.issues, 5)) > 0

\* the merged type map of a validate() call that has returned: options.types
\* over the hints of the file
MergedTypes == Spread(Spread(EmptyObject, result.env.typeHints), call.options.types)

\* type checking is on
TypeCheckingOn == call.options.validateTypes \/ call.options.types # EmptyObject

\* the file assigns key a value that is not empty and that its type refuses
FailsType(key) ==
    /\ TypeCheckingOn
    /\ HasOwn(MergedTypes, key)
    /\ HasOwn(result.env.variables, key)
    /\ Get(result.env.variables, key) # <<>>
    /\ validateType(Get(result.env.variables, key), Get(MergedTypes, key)) # Threw
    /\ ~validateType(Get(result.env.variables, key), Get(MergedTypes, key)).valid

\* C22: in validate(), a key of the merged type map that the file assigns a
\* non-empty value its validator refuses gives exactly one type issue, an
\* error "Variable '<key>' <validator message> (got: <value>)", and valid =
\* false; every other key gives no type issue.
C22_TypeIssues ==
    ValidatedFile =>
        \A key \in {KeyA, KeyB, KeyToString} :
            LET about == IssuesAbout(result.issues, TextType, key)
            IN  IF FailsType(key)
                THEN /\ Cardinality(about) = 1
                     /\ \A i \in about :
                            /\ result.issues[i].type = "error"
                            /\ result.issues[i].message.args =
                                   <<key,
                                     validateType(Get(result.env.variables, key),
                                                  Get(MergedTypes, key)).message,
                                     Get(result.env.variables, key)>>
                     /\ ~result.valid
                ELSE about = {}

(***************************************************************************)
(* list and generate on their own                                          *)
(***************************************************************************)
\* the lines of the file list and generate read
ListLineSet ==
    { <<"A","=">>, <<"A","=","2">>, <<"B","=","x">>, <<"1","=","y">>,
      <<"t","o","S","t","r","i","n","g","=","z">>,
      <<"_","_","p","r","o","t","o","_","_","=","x">>,
      <<"#"," ","n","o","t","e">> }

\* the most lines that file has
MaxListLines == 3

\* the file: none, empty, or up to MaxListLines lines
ListFiles ==
    {NoFile} \cup UNION { { join(ls) : ls \in [1..n -> ListLineSet] } : n \in 0..MaxListLines }

\* the defaults generate is given
DefaultsMaps ==
    { EmptyObject, <<<<KeyA, <<"d">>>>>>, <<<<KeyB, <<"d">>>>, <<<<"C">>, <<"e">>>>>> }

ListCalls ==
    {[op |-> "list"]} \cup { [op |-> "generate", defaults |-> d] : d \in DefaultsMaps }

InitList ==
    /\ call \in ListCalls
    /\ fs \in [Paths -> ListFiles]
    /\ fs[ExamplePath] = NoFile
    /\ pc = "call"
    /\ result = NoResult

\* list(path)
List ==
    /\ pc = "call"
    /\ call.op = "list"
    /\ result' = list(fs, EnvPath)
    /\ pc' = "return"
    /\ UNCHANGED <<fs, call>>

\* generate(examplePath, defaults)
Generate ==
    /\ pc = "call"
    /\ call.op = "generate"
    /\ result' = generate(fs, EnvPath, call.defaults)
    /\ pc' = IF result' = ThrewNotFound THEN "throw" ELSE "return"
    /\ UNCHANGED <<fs, call>>

NextList == List \/ Generate

ListSpec == InitList /\ [][NextList]_vars

\* the lines 'KEY=value' and a line feed after each, for the entries of
\* variables in their order, the value from defaults where defaults has the key
RECURSIVE LinesFor(_, _)
LinesFor(variables, defaults) ==
    IF variables = <<>> THEN <<>>
    ELSE variables[1][1] \o <<"=">>
         \o (IF HasOwn(defaults, variables[1][1]) THEN Get(defaults, variables[1][1])
             ELSE variables[1][2])
         \o <<"\n">> \o LinesFor(Tail(variables), defaults)

\* C23: generate() throws when the example file does not exist; otherwise
\* it returns the lines 'KEY=value' of the example's variables in their
\* order, a line feed after each, the value taken from defaults when
\* defaults has the key and from the example otherwise, and no line for
\* any other key; an example without variables gives no 'KEY=value' line.
C23_GenerateLines ==
    Ended("generate") =>
        IF fs[EnvPath] = NoFile THEN pc = "throw"
        ELSE /\ pc = "return"
             /\ IF parseEnv(fs[EnvPath]).variables = EmptyObject
                THEN result \in {<<>>, <<"\n">>}
                ELSE result = LinesFor(parseEnv(fs[EnvPath]).variables, call.defaults)

\* the names the lines assign, each once, in the order of their first
\* assignment
RECURSIVE FirstAssigned(_, _)
FirstAssigned(ls, seen) ==
    IF ls = <<>> THEN <<>>
    ELSE IF NameOf(ls[1]) = <<>> \/ NameOf(ls[1]) \in seen THEN FirstAssigned(Tail(ls), seen)
    ELSE <<NameOf(ls[1])>> \o FirstAssigned(Tail(ls), seen \cup {NameOf(ls[1])})

\* C24: list(path) returns the names the file assigns, each once, in the
\* order in which each is first assigned; the empty sequence for an empty
\* file.
C24_ListInsertionOrder ==
    (Returned("list") /\ fs[EnvPath] # NoFile) =>
        result = FirstAssigned(split(fs[EnvPath]), {})

(***************************************************************************)
(* check() beside a process that writes the files                          *)
(***************************************************************************)
\* what the env file holds at one moment
RaceEnvFiles == { NoFile, <<"A","=">>, <<"A","=","x">> }

\* what the example file holds at one moment
RaceExampleFiles ==
    { NoFile, <<"A","=">>, <<"#"," ","t","y","p","e",":"," ","p","o","r","t","\n","A","=">> }

RaceFileSystems ==
    { [p \in Paths |-> IF p = EnvPath THEN e ELSE x] : e \in RaceEnvFiles, x \in RaceExampleFiles }

RaceCalls ==
    { [op |-> "check", options |-> [DefaultOptions EXCEPT !.examplePath = ExamplePath,
                                                          !.noEmpty = ne]] :
        ne \in BOOLEAN }

InitRace ==
    /\ call \in RaceCalls
    /\ fs \in RaceFileSystems
    /\ pc = "call"
    /\ result = NoResult

\* index.js 449: readEnvFile(examplePath) for the type hints
ReadHints ==
    /\ pc = "call"
    /\ result' = [fsHints |-> fs]
    /\ pc' = "hints"
    /\ UNCHANGED <<fs, call>>

\* index.js 460 and 331: validate reads the env file
ReadValidate ==
    /\ pc = "hints"
    /\ result' = [fsHints |-> result.fsHints, fsValidate |-> fs]
    /\ pc' = "validated"
    /\ UNCHANGED <<fs, call>>

\* index.js 476 and 254: compare reads the env file
ReadCompareEnv ==
    /\ pc = "validated"
    /\ result' = [fsHints |-> result.fsHints, fsValidate |-> result.fsValidate,
                  fsCompareEnv |-> fs]
    /\ pc' = "compared"
    /\ UNCHANGED <<fs, call>>

\* index.js 255 and 477-521: compare reads the example file and check returns
ReadCompareExample ==
    /\ pc = "compared"
    /\ result' = checkWith(result.fsHints, result.fsValidate, result.fsCompareEnv, fs,
                           EnvPath, call.options)
    /\ pc' = IF result' = Threw THEN "throw" ELSE "return"
    /\ UNCHANGED <<fs, call>>

\* another process rewrites or deletes a file while the call runs
Rewrite ==
    /\ pc \in {"call", "hints", "validated", "compared"}
    /\ fs' \in RaceFileSystems
    /\ \E path \in Paths : fs' = [fs EXCEPT ![path] = fs'[path]] /\ fs'[path] # fs[path]
    /\ UNCHANGED <<call, pc, result>>

NextRace == ReadHints \/ ReadValidate \/ ReadCompareEnv \/ ReadCompareExample \/ Rewrite

RaceSpec == InitRace /\ [][NextRace]_vars

\* C25: what a check(envPath, {examplePath}) call returns is what check
\* gives on one file system: result.env and result.comparison.env are the
\* same, and the whole result is that of check on some one state of the two
\* files, also when the files are rewritten while the call runs.
C25_OneSnapshot ==
    Returned("check") =>
        /\ result.env = result.comparison.env
        /\ \E f \in RaceFileSystems : result = check(f, EnvPath, call.options)

\* a line that is neither a comment nor blank and has no '=' or nothing
\* but white space before its first '='
IsErrorLine(line) == ~IsComment(line) /\ ~IsBlank(line) /\ NameOf(line) = <<>>

ErrorLinesOf(ls) == { n \in 1..Len(ls) : IsErrorLine(ls[n]) }

\* the entries of a list of errors or warnings that carry line number n
EntriesAt(entries, n) == { i \in 1..Len(entries) : entries[i].line = n }

UnusualAt(warnings, n) ==
    { i \in 1..Len(warnings) : warnings[i].line = n /\ warnings[i].message.text = TextUnusual }

\* C26: in parse() every line without '=' or with an empty trimmed key
\* that is no comment and not blank adds exactly one error with its line
\* number and stores no variable, no other line adds an error, every
\* assignment line is stored, also after an error line, and a stored key is
\* given one 'unusual characters' warning exactly when it has characters
\* outside [A-Za-z_][A-Za-z0-9_]*.
C26_EveryLineHandled ==
    Returned("parse") =>
        LET ls == LinesOf(call.content)
        IN  /\ Len(result.errors) = Cardinality(ErrorLinesOf(ls))
            /\ \A n \in 1..Len(ls) :
                   /\ Cardinality(EntriesAt(result.errors, n)) = IF IsErrorLine(ls[n]) THEN 1 ELSE 0
                   /\ NameOf(ls[n]) # <<>> => HasOwn(result.variables, NameOf(ls[n]))
                   /\ Cardinality(UnusualAt(result.warnings, n)) =
                          IF NameOf(ls[n]) # <<>> /\ ~IsUsualName(NameOf(ls[n])) THEN 1 ELSE 0
            /\ ElementsOf(ObjectKeys(result.variables)) \subseteq KeysOf(call.content)

\* the string with every pat, found from left to right, turned into rep
RECURSIVE Pass(_, _, _)
Pass(s, pat, rep) ==
    IF Len(s) < Len(pat) THEN s
    ELSE IF SubSeq(s, 1, Len(pat)) = pat THEN rep \o Pass(SubSeq(s, Len(pat) + 1, Len(s)), pat, rep)
    ELSE <<s[1]>> \o Pass(Tail(s), pat, rep)

\* the five passes, each over the whole string the one before it left
FivePasses(s) ==
    Pass(Pass(Pass(Pass(Pass(s, <<"\\", "n">>, <<"\n">>),
                        <<"\\", "r">>, <<"\r">>),
                   <<"\\", "t">>, <<"\t">>),
              <<"\\", "\\">>, <<"\\">>),
         <<"\\", "\"">>, <<"\"">>)

\* t has two characters or more and the same quote q at both ends
IsWrapped(t, q) == Len(t) >= 2 /\ t[1] = q /\ t[Len(t)] = q

\* x is a piece of s: s with nothing put in the place of anything
IsPieceOf(x, s) ==
    \E i \in 0..(Len(s) - Len(x)) : SubSeq(s, i + 1, i + Len(x)) = x

\* no comment is cut from the right-hand side: it has no ' #', or it opens
\* with a quote
IsUncut(raw) == indexOf(raw, <<" ", "#">>) = -1 \/ StartsWithQuote(raw)

\* x is what the five passes make of the inside of a piece of raw that is
\* wrapped in double quotes
IsSubstituted(x, raw) ==
    \E i \in 1..Len(raw) : \E j \in (i + 1)..Len(raw) :
        /\ raw[i] = "\"" /\ raw[j] = "\""
        /\ x = FivePasses(SubSeq(raw, i + 1, j - 1))

\* C27: parseValue substitutes escapes only in a value whose trimmed
\* right-hand side starts with a double quote and that is wrapped in double
\* quotes: what is between the quotes goes through the five passes \n, \r,
\* \t, \\, \" in this order, each over the whole string; every other value,
\* one in single quotes too, is returned as a piece of the right-hand side,
\* its backslash sequences as they were.
C27_EscapesOnlyInDoubleQuotes ==
    Returned("parseValue") =>
        /\ ~startsWith(trim(call.raw), DQ) => IsPieceOf(result, call.raw)
        /\ IsUncut(call.raw) =>
               IF IsWrapped(trim(call.raw), "\"")
               THEN result = FivePasses(StripEnds(trim(call.raw)))
               ELSE IsPieceOf(result, call.raw)
        /\ IsPieceOf(result, call.raw) \/ IsSubstituted(result, call.raw)

\* "\\n" in double quotes gave a backslash and n by the first pass taking
\* the \n in it, not a backslash and the letter n
C27_Witness ==
    /\ Returned("parseValue")
    /\ call.raw = <<"\"", "\\", "\\", "n", "\"">>
    /\ result = <<"\\", "\n">>

\* digits, with one '.' at most among them and a digit on one side of it
IsUnsignedNumeral(v) ==
    /\ v # <<>>
    /\ \A i \in 1..Len(v) : v[i] \in Digits \cup {"."}
    /\ Cardinality({ i \in 1..Len(v) : v[i] = "." }) <= 1
    /\ \E i \in 1..Len(v) : v[i] \in Digits

\* the whole of v is a decimal numeral: an integer or a float, a sign
\* before it or not
IsDecimalNumeral(v) ==
    \/ IsUnsignedNumeral(v)
    \/ v # <<>> /\ v[1] \in {"+", "-"} /\ IsUnsignedNumeral(Tail(v))

\* C28: for a non-empty v, validateType(v, 'number') is valid exactly when
\* the whole of v is a finite decimal numeral.
C28_NumberIsWholeNumeral ==
    (Returned("validateType") /\ call.type = TypeNumber /\ call.value # <<>>) =>
        (result.valid <=> IsDecimalNumeral(call.value))

\* C29: after parse(), a typeHints entry of K is the hint of the annotation
\* pending at the last assignment of K, the one whose value and line are
\* kept; when that assignment has no annotation, K has no entry.
C29_HintOfLastAssignment ==
    Returned("parse") =>
        \A k \in KeysOf(call.content) :
            HasOwn(result.typeHints, k) =>
                /\ PendingBefore(LinesOf(call.content), Last(AssignmentsOf(call.content, k))) # Null
                /\ Get(result.typeHints, k) =
                       PendingBefore(LinesOf(call.content), Last(AssignmentsOf(call.content, k)))

\* the issues of the list that say key is empty
EmptinessIssues(issues, key) ==
    IssuesAbout(issues, TextEmpty, key) \cup IssuesAbout(issues, TextRequiredEmpty, key)

\* C30: in the issues of check() at most one says of a variable that it is
\* empty, whatever the options: the validator's required-empty error or
\* noEmpty warning and the issue made from the comparison's empty list are
\* never both there for one variable.
C30_EmptinessOnce ==
    Returned("check") =>
        \A key \in {KeyA, KeyB} : Cardinality(EmptinessIssues(result.issues, key)) <= 1

====
